---- MODULE Spec2Model ----
(***************************************************************************)
(* Model of autogoals (src/src/main.rs): the session loop of `start`, the  *)
(* status reader `parse_goals`, and the two queries of GoalsFile,          *)
(* `has_pending_work` and `count_by_status`.                               *)
(*                                                                         *)
(* A GoalsFile is modelled by the sequence of the `status` strings of its  *)
(* goals (id, description and plan are never inspected by the code).       *)
(***************************************************************************)
EXTENDS Integers, Sequences, FiniteSets, TLC

\* ---------------------------------------------------------------- bounds
\* longest goal list in the status file seen by the session loop
MaxGoals == 2
\* largest session number for which a launch is attempted
MaxSessions == 2
\* longest goal list handed to the pure queries
MaxLen == 3
\* longest goal list in the status file of the fair specification
MaxLiveGoals == 1

\* ------------------------------------------------------- status alphabet
\* the four strings matched by has_pending_work (main.rs:46)
PendingWorkStatuses ==
    {"pending", "ready_for_execution", "in_progress", "ready_for_verification"}

\* the strings of the second arm of count_by_status (main.rs:59)
ActiveStatuses == {"in_progress", "ready_for_execution", "ready_for_verification"}

\* statuses used for the pure queries: the six of the contract, a string no
\* arm names, and a case variant of "completed"
AllStatuses ==
    {"not_started", "pending", "ready_for_execution", "in_progress",
     "ready_for_verification", "completed", "bogus", "Completed"}

\* statuses written to the status file in the session loop: one per class of
\* the two queries (completed / active / pending-and-matched / unmatched)
FileStatuses == {"completed", "in_progress", "pending", "not_started"}

\* a goal entry of the document that has no `status` key
NoStatus == "<missing>"

SeqsUpTo(S, n) == UNION {[1..k -> S] : k \in 0..n}

\* ------------------------------------------------------------ pure code
RECURSIVE AnyFrom(_, _)
\* Iterator::any over goals[i..]: stops at the first match
AnyFrom(gs, i) ==
    IF i > Len(gs) THEN FALSE
    ELSE IF gs[i] \in PendingWorkStatuses THEN TRUE
    ELSE AnyFrom(gs, i + 1)

\* mutant: the matches! list lost "ready_for_verification"
has_pending_work_short(gs) ==
    \E i \in 1..Len(gs) : gs[i] \in {"pending", "ready_for_execution", "in_progress"}

\* GoalsFile::has_pending_work
has_pending_work(gs) == AnyFrom(gs, 1)

RECURSIVE CountFrom(_, _, _)
\* the for loop of count_by_status; acc = <<pending, in_progress, completed>>
CountFrom(gs, i, acc) ==
    IF i > Len(gs) THEN acc
    ELSE CountFrom(gs, i + 1,
           IF gs[i] = "completed" THEN <<acc[1], acc[2], acc[3] + 1>>
           ELSE IF gs[i] \in ActiveStatuses THEN <<acc[1], acc[2] + 1, acc[3]>>
           ELSE <<acc[1] + 1, acc[2], acc[3]>>)

RECURSIVE CountFromDrop(_, _, _)
\* mutant loop: the catch-all arm is replaced by arms for the two known names
CountFromDrop(gs, i, acc) ==
    IF i > Len(gs) THEN acc
    ELSE CountFromDrop(gs, i + 1,
           IF gs[i] = "completed" THEN <<acc[1], acc[2], acc[3] + 1>>
           ELSE IF gs[i] \in ActiveStatuses THEN <<acc[1], acc[2] + 1, acc[3]>>
           ELSE IF gs[i] \in {"pending", "not_started"} THEN <<acc[1] + 1, acc[2], acc[3]>>
           ELSE acc)

\* mutant: unrecognized statuses are counted in no bucket
count_by_status_drop(gs) ==
    LET r == CountFromDrop(gs, 1, <<0, 0, 0>>) IN <<r[3], r[2], r[1]>>

RECURSIVE CountFromPendingActive(_, _, _)
\* mutant loop: "pending" moved to the in_progress arm
CountFromPendingActive(gs, i, acc) ==
    IF i > Len(gs) THEN acc
    ELSE CountFromPendingActive(gs, i + 1,
           IF gs[i] = "completed" THEN <<acc[1], acc[2], acc[3] + 1>>
           ELSE IF gs[i] \in ActiveStatuses \cup {"pending"}
                THEN <<acc[1], acc[2] + 1, acc[3]>>
           ELSE <<acc[1] + 1, acc[2], acc[3]>>)

\* mutant: "pending" is counted as in progress
count_by_status_pending_active(gs) ==
    LET r == CountFromPendingActive(gs, 1, <<0, 0, 0>>) IN <<r[3], r[2], r[1]>>

\* GoalsFile::count_by_status: returns (completed, in_progress, pending)
count_by_status(gs) ==
    LET r == CountFrom(gs, 1, <<0, 0, 0>>) IN <<r[3], r[2], r[1]>>

\* --------------------------------------------------------- status reader
\* contents of <project>/goals.yaml: unreadable, not YAML of the expected
\* shape, or a document whose goal entries carry these status values
Unreadable == [kind |-> "unreadable", records |-> <<>>]
Malformed == [kind |-> "malformed", records |-> <<>>]
Doc(rs) == [kind |-> "yaml", records |-> rs]

FileContents ==
    {Unreadable, Malformed}
      \cup {Doc(rs) : rs \in SeqsUpTo(FileStatuses \cup {NoStatus}, MaxGoals)}

\* parse_goals: fs::read_to_string, then serde_yaml::from_str into GoalsFile
\* (Goal.status is a String without a serde default, so an entry without it
\* is a deserialization error)
parse_goals(c) ==
    IF c.kind = "unreadable" THEN [ok |-> FALSE, err |-> "IoError", goals |-> <<>>]
    ELSE IF c.kind = "malformed" THEN [ok |-> FALSE, err |-> "FormatError", goals |-> <<>>]
    ELSE IF \E i \in 1..Len(c.records) : c.records[i] = NoStatus
         THEN [ok |-> FALSE, err |-> "FormatError", goals |-> <<>>]
    ELSE [ok |-> TRUE, err |-> "None", goals |-> c.records]

\* ------------------------------------------------------------------ state
VARIABLES
    pc,             \* position in `start` (or in the query harness)
    pathExists,     \* project_path.exists()
    fileExists,     \* goals_file_path.exists()
    stdoutOk,       \* a write to the process's stdout succeeds
    content,        \* contents of goals.yaml on disk
    goals,          \* `goals` of the current loop iteration
    counts,         \* (completed, in_progress, pending) of the status line
    pendingWork,    \* value of goals.has_pending_work() at the last test
    session_num,    \* `session_num`
    children,       \* number of live child processes
    lastSession,    \* the last session report printed
    err,            \* the error `start` returned, "None" if none
    exitCode,       \* exit code of the process, -1 while running
    reads,          \* calls of parse_goals so far
    launches,       \* calls of spawn so far
    exited          \* sessions whose wait returned an exit status

vars == <<pc, pathExists, fileExists, stdoutOk, content, goals, counts,
          pendingWork, session_num, children, lastSession, err, exitCode,
          reads, launches, exited>>

NoSession == [num |-> 0, success |-> TRUE, code |-> 0]

\* exit statuses of the child: success, failure, killed by a signal (no code)
ExitStatuses ==
    {[success |-> TRUE, code |-> 0], [success |-> FALSE, code |-> 1],
     [success |-> FALSE, code |-> -1]}

\* state of the process when `start` is entered
Init ==
    /\ pc = "Init"
    /\ pathExists \in BOOLEAN
    /\ fileExists \in BOOLEAN
    /\ fileExists => pathExists
    /\ stdoutOk \in BOOLEAN
    /\ content \in FileContents
    /\ ~fileExists => content = Unreadable
    /\ goals = <<>>
    /\ counts = <<0, 0, 0>>
    /\ pendingWork = FALSE
    /\ session_num = 1
    /\ children = 0
    /\ lastSession = NoSession
    /\ err = "None"
    /\ exitCode = -1
    /\ reads = 0
    /\ launches = 0
    /\ exited = 0

\* `start` returns Err(e): main returns the error, the process exits with 1
Fail(e) ==
    /\ pc' = "Failed"
    /\ err' = e
    /\ exitCode' = 1

\* println! cannot write to stdout: it panics, the process exits with 101
Panic ==
    /\ pc' = "Panicked"
    /\ exitCode' = 101

\* mutant: goals.yaml is looked for before the project path is verified
ValidateFileFirst ==
    /\ pc = "Init"
    /\ IF ~stdoutOk THEN Panic /\ UNCHANGED err
       ELSE IF ~fileExists THEN Fail("StatusFileMissing")
       ELSE IF ~pathExists THEN Fail("PathNotFound")
       ELSE pc' = "CheckStatus" /\ UNCHANGED <<err, exitCode>>
    /\ UNCHANGED <<pathExists, fileExists, stdoutOk, content, goals, counts,
                   pendingWork, session_num, children, lastSession, reads,
                   launches, exited>>

\* the banner, then the two existence checks before the loop
Validate ==
    /\ pc = "Init"
    /\ IF ~stdoutOk THEN Panic /\ UNCHANGED err
       ELSE IF ~pathExists THEN Fail("PathNotFound")
       ELSE IF ~fileExists THEN Fail("StatusFileMissing")
       ELSE pc' = "CheckStatus" /\ UNCHANGED <<err, exitCode>>
    /\ UNCHANGED <<pathExists, fileExists, stdoutOk, content, goals, counts,
                   pendingWork, session_num, children, lastSession, reads,
                   launches, exited>>

\* mutant: goals.yaml is parsed once, later passes reuse the value in memory
CheckStatusCached ==
    /\ pc = "CheckStatus"
    /\ IF reads = 0
       THEN /\ reads' = reads + 1
            /\ LET r == parse_goals(content) IN
                 IF r.ok
                 THEN /\ goals' = r.goals
                      /\ counts' = count_by_status(r.goals)
                      /\ IF stdoutOk
                         THEN pc' = "Decide" /\ UNCHANGED <<err, exitCode>>
                         ELSE Panic /\ UNCHANGED err
                 ELSE /\ Fail(r.err)
                      /\ UNCHANGED <<goals, counts>>
       ELSE /\ IF stdoutOk
               THEN pc' = "Decide" /\ UNCHANGED <<err, exitCode>>
               ELSE Panic /\ UNCHANGED err
            /\ UNCHANGED <<reads, goals, counts>>
    /\ UNCHANGED <<pathExists, fileExists, stdoutOk, content, pendingWork,
                   session_num, children, lastSession, launches, exited>>

\* mutant: a failed read is retried on the next pass instead of propagated
CheckStatusRetry ==
    /\ pc = "CheckStatus"
    /\ reads' = reads + 1
    /\ LET r == parse_goals(content) IN
         IF r.ok
         THEN /\ goals' = r.goals
              /\ counts' = count_by_status(r.goals)
              /\ IF stdoutOk THEN pc' = "Decide" /\ UNCHANGED <<err, exitCode>>
                 ELSE Panic /\ UNCHANGED err
         ELSE /\ reads < MaxSessions + 1
              /\ UNCHANGED <<pc, err, exitCode, goals, counts>>
    /\ UNCHANGED <<pathExists, fileExists, stdoutOk, content, pendingWork,
                   session_num, children, lastSession, launches, exited>>

\* top of the loop: parse goals.yaml, print the status line
CheckStatus ==
    /\ pc = "CheckStatus"
    /\ reads' = reads + 1
    /\ LET r == parse_goals(content) IN
         IF r.ok
         THEN /\ goals' = r.goals
              /\ counts' = count_by_status(r.goals)
              /\ IF stdoutOk THEN pc' = "Decide" /\ UNCHANGED <<err, exitCode>>
                 ELSE Panic /\ UNCHANGED err
         ELSE /\ Fail(r.err)
              /\ UNCHANGED <<goals, counts>>
    /\ UNCHANGED <<pathExists, fileExists, stdoutOk, content, pendingWork,
                   session_num, children, lastSession, launches, exited>>

\* mutant: before a session the driver marks pending goals in the file
DecideMarksInProgress ==
    /\ pc = "Decide"
    /\ pendingWork' = has_pending_work(goals)
    /\ IF ~stdoutOk THEN Panic /\ UNCHANGED content
       ELSE IF ~pendingWork'
       THEN pc' = "Done" /\ exitCode' = 0 /\ UNCHANGED content
       ELSE /\ pc' = "RunSession"
            /\ content' = [kind |-> "yaml",
                           records |-> [i \in 1..Len(goals) |->
                              IF goals[i] = "pending" THEN "in_progress"
                              ELSE goals[i]]]
            /\ UNCHANGED exitCode
    /\ UNCHANGED <<pathExists, fileExists, stdoutOk, goals, counts, session_num,
                   children, lastSession, err, reads, launches, exited>>

\* mutant: a do-while loop, the first session runs before the first test
DecideDoWhile ==
    /\ pc = "Decide"
    /\ pendingWork' = has_pending_work(goals)
    /\ IF ~stdoutOk THEN Panic
       ELSE IF ~pendingWork' /\ session_num > 1 THEN pc' = "Done" /\ exitCode' = 0
       ELSE pc' = "RunSession" /\ UNCHANGED exitCode
    /\ UNCHANGED <<pathExists, fileExists, stdoutOk, content, goals, counts,
                   session_num, children, lastSession, err, reads, launches,
                   exited>>

\* mutant: the negation of the loop test is lost
DecideNegated ==
    /\ pc = "Decide"
    /\ pendingWork' = has_pending_work(goals)
    /\ IF ~stdoutOk THEN Panic
       ELSE IF pendingWork' THEN pc' = "Done" /\ exitCode' = 0
       ELSE pc' = "RunSession" /\ UNCHANGED exitCode
    /\ UNCHANGED <<pathExists, fileExists, stdoutOk, content, goals, counts,
                   session_num, children, lastSession, err, reads, launches,
                   exited>>

\* mutant: the loop gives up after one session
DecideCapped ==
    /\ pc = "Decide"
    /\ pendingWork' = has_pending_work(goals)
    /\ IF ~stdoutOk THEN Panic
       ELSE IF ~pendingWork' \/ session_num > 1 THEN pc' = "Done" /\ exitCode' = 0
       ELSE pc' = "RunSession" /\ UNCHANGED exitCode
    /\ UNCHANGED <<pathExists, fileExists, stdoutOk, content, goals, counts,
                   session_num, children, lastSession, err, reads, launches,
                   exited>>

\* mutant: leftover goals at the end of the loop give a partial-success code
DecideExitOnLeftovers ==
    /\ pc = "Decide"
    /\ pendingWork' = has_pending_work(goals)
    /\ IF ~stdoutOk THEN Panic
       ELSE IF ~pendingWork' THEN pc' = "Done" /\ exitCode' = (IF counts[1] < Len(goals) THEN 2 ELSE 0)
       ELSE pc' = "RunSession" /\ UNCHANGED exitCode
    /\ UNCHANGED <<pathExists, fileExists, stdoutOk, content, goals, counts,
                   session_num, children, lastSession, err, reads, launches,
                   exited>>

\* `if !goals.has_pending_work() { break; }` with the messages around it, then
\* Ok(()) after the loop
Decide ==
    /\ pc = "Decide"
    /\ pendingWork' = has_pending_work(goals)
    /\ IF ~stdoutOk THEN Panic
       ELSE IF ~pendingWork' THEN pc' = "Done" /\ exitCode' = 0
       ELSE pc' = "RunSession" /\ UNCHANGED exitCode
    /\ UNCHANGED <<pathExists, fileExists, stdoutOk, content, goals, counts,
                   session_num, children, lastSession, err, reads, launches,
                   exited>>

\* mutant: the child is spawned and not waited for
RunSessionDetached ==
    /\ pc = "RunSession"
    /\ session_num <= MaxSessions
    /\ launches' = launches + 1
    /\ \E spawned \in BOOLEAN :
         IF spawned
         THEN /\ children' = children + 1
              /\ session_num' = session_num + 1
              /\ pc' = "CheckStatus"
              /\ UNCHANGED <<err, exitCode>>
         ELSE /\ Fail("ProcessLaunchError")
              /\ children' \in {children, children + 1}
              /\ UNCHANGED session_num
    /\ UNCHANGED <<pathExists, fileExists, stdoutOk, content, goals, counts,
                   pendingWork, lastSession, reads, exited>>

\* mutant: a failed spawn is reported like a failed session and the loop goes on
RunSessionContinue ==
    /\ pc = "RunSession"
    /\ session_num <= MaxSessions
    /\ launches' = launches + 1
    /\ \E spawned \in BOOLEAN :
         IF spawned
         THEN /\ children' = children + 1
              /\ pc' = "WaitChild"
              /\ UNCHANGED <<session_num, lastSession>>
         ELSE /\ lastSession' = [num |-> session_num, success |-> FALSE, code |-> -1]
              /\ session_num' = session_num + 1
              /\ pc' = "CheckStatus"
              /\ children' \in {children, children + 1}
    /\ UNCHANGED <<pathExists, fileExists, stdoutOk, content, goals, counts,
                   pendingWork, err, exitCode, reads, exited>>

\* Command::new("claude")...spawn(): spawn() starts the process and then
\* registers it with the runtime; it returns an error when the process could
\* not be started, and also when the registration fails after the process
\* has started, in which case the agent runs on and nothing reaps it
RunSession ==
    /\ pc = "RunSession"
    /\ session_num <= MaxSessions
    /\ launches' = launches + 1
    /\ \E spawned \in BOOLEAN :
         IF spawned
         THEN /\ children' = children + 1
              /\ pc' = "WaitChild"
              /\ UNCHANGED <<err, exitCode>>
         ELSE /\ Fail("ProcessLaunchError")
              /\ children' \in {children, children + 1}
    /\ UNCHANGED <<pathExists, fileExists, stdoutOk, content, goals, counts,
                   pendingWork, session_num, lastSession, reads, exited>>

\* mutant: session_num is incremented in the success branch only
WaitChildCountSuccess ==
    /\ pc = "WaitChild"
    /\ \/ \E st \in ExitStatuses :
            /\ children' = children - 1
            /\ exited' = exited + 1
            /\ exited < MaxSessions + 1
            /\ \/ /\ stdoutOk
                  /\ lastSession' = [num |-> session_num, success |-> st.success,
                                     code |-> st.code]
                  /\ session_num' = (IF st.success THEN session_num + 1 ELSE session_num)
                  /\ pc' = "CheckStatus" /\ UNCHANGED <<err, exitCode>>
                  /\ UNCHANGED stdoutOk
               \/ /\ ~stdoutOk
                  /\ Panic
                  /\ UNCHANGED <<lastSession, session_num, err, stdoutOk>>
               \/ /\ stdoutOk
                  /\ stdoutOk' = FALSE
                  /\ lastSession' = [num |-> session_num, success |-> st.success,
                                     code |-> st.code]
                  /\ session_num' = (IF st.success THEN session_num + 1 ELSE session_num)
                  /\ Panic
                  /\ UNCHANGED err
       \/ /\ Fail("ProcessWaitError")
          /\ children' \in {children - 1, children}
          /\ UNCHANGED <<lastSession, session_num, exited, stdoutOk>>
    /\ UNCHANGED <<pathExists, fileExists, content, goals, counts, pendingWork,
                   reads, launches>>

\* mutant: after a failed session the agent is started again at once
WaitChildRelaunch ==
    /\ pc = "WaitChild"
    /\ \/ \E st \in ExitStatuses :
            /\ children' = children - 1
            /\ exited' = exited + 1
            /\ \/ /\ stdoutOk
                  /\ lastSession' = [num |-> session_num, success |-> st.success,
                                     code |-> st.code]
                  /\ session_num' = session_num + 1
                  /\ pc' = (IF st.success THEN "CheckStatus" ELSE "RunSession")
                  /\ UNCHANGED <<err, exitCode>>
                  /\ UNCHANGED stdoutOk
               \/ /\ ~stdoutOk
                  /\ Panic
                  /\ UNCHANGED <<lastSession, session_num, err, stdoutOk>>
               \/ /\ stdoutOk
                  /\ stdoutOk' = FALSE
                  /\ lastSession' = [num |-> session_num, success |-> st.success,
                                     code |-> st.code]
                  /\ session_num' = session_num + 1
                  /\ Panic
                  /\ UNCHANGED err
       \/ /\ Fail("ProcessWaitError")
          /\ children' \in {children - 1, children}
          /\ UNCHANGED <<lastSession, session_num, exited, stdoutOk>>
    /\ UNCHANGED <<pathExists, fileExists, content, goals, counts, pendingWork,
                   reads, launches>>

\* mutant: a child that exits with failure ends the run with an error
WaitChildStrict ==
    /\ pc = "WaitChild"
    /\ \/ \E st \in ExitStatuses :
            /\ children' = children - 1
            /\ exited' = exited + 1
            /\ \/ /\ stdoutOk
                  /\ lastSession' = [num |-> session_num, success |-> st.success,
                                     code |-> st.code]
                  /\ session_num' = session_num + 1
                  /\ IF st.success
                     THEN pc' = "CheckStatus" /\ UNCHANGED <<err, exitCode>>
                     ELSE Fail("ProcessExitNonZero")
                  /\ UNCHANGED stdoutOk
               \/ /\ ~stdoutOk
                  /\ Panic
                  /\ UNCHANGED <<lastSession, session_num, err, stdoutOk>>
               \/ /\ stdoutOk
                  /\ stdoutOk' = FALSE
                  /\ lastSession' = [num |-> session_num, success |-> st.success,
                                     code |-> st.code]
                  /\ session_num' = session_num + 1
                  /\ Panic
                  /\ UNCHANGED err
       \/ /\ Fail("ProcessWaitError")
          /\ children' \in {children - 1, children}
          /\ UNCHANGED <<lastSession, session_num, exited, stdoutOk>>
    /\ UNCHANGED <<pathExists, fileExists, content, goals, counts, pendingWork,
                   reads, launches>>

\* child.wait().await, the session report, session_num += 1, the re-check
\* message; when wait fails the child may or may not be gone
WaitChild ==
    /\ pc = "WaitChild"
    /\ \/ \E st \in ExitStatuses :
            /\ children' = children - 1
            /\ exited' = exited + 1
            /\ \/ /\ stdoutOk
                  /\ lastSession' = [num |-> session_num, success |-> st.success,
                                     code |-> st.code]
                  /\ session_num' = session_num + 1
                  /\ pc' = "CheckStatus" /\ UNCHANGED <<err, exitCode>>
                  /\ UNCHANGED stdoutOk
               \/ /\ ~stdoutOk
                  /\ Panic
                  /\ UNCHANGED <<lastSession, session_num, err, stdoutOk>>
               \/ /\ stdoutOk
                  /\ stdoutOk' = FALSE
                  /\ lastSession' = [num |-> session_num, success |-> st.success,
                                     code |-> st.code]
                  /\ session_num' = session_num + 1
                  /\ Panic
                  /\ UNCHANGED err
       \/ /\ Fail("ProcessWaitError")
          /\ children' \in {children - 1, children}
          /\ UNCHANGED <<lastSession, session_num, exited, stdoutOk>>
    /\ UNCHANGED <<pathExists, fileExists, content, goals, counts, pendingWork,
                   reads, launches>>

\* the agent, or anyone else, rewrites goals.yaml
ExternalWrite ==
    /\ fileExists
    /\ pc \notin {"Done", "Failed", "Panicked"}
    /\ \E c \in FileContents : c # content /\ content' = c
    /\ UNCHANGED <<pc, pathExists, fileExists, stdoutOk, goals, counts,
                   pendingWork, session_num, children, lastSession, err,
                   exitCode, reads, launches, exited>>

\* stdout stops accepting writes (its reader goes away, the device fills up)
StdoutBreaks ==
    /\ stdoutOk
    /\ pc \notin {"Done", "Failed", "Panicked"}
    /\ stdoutOk' = FALSE
    /\ UNCHANGED <<pc, pathExists, fileExists, content, goals, counts,
                   pendingWork, session_num, children, lastSession, err,
                   exitCode, reads, launches, exited>>

Next ==
    \/ Validate
    \/ CheckStatus
    \/ Decide
    \/ RunSession
    \/ WaitChild
    \/ ExternalWrite
    \/ StdoutBreaks

Spec == Init /\ [][Next]_vars

\* ------------------------------------------------- harness of the queries
\* a GoalsFile value, before its queries are called
InitFn ==
    /\ pc = "Fn"
    /\ goals \in SeqsUpTo(AllStatuses, MaxLen)
    /\ pathExists = TRUE
    /\ fileExists = TRUE
    /\ stdoutOk = TRUE
    /\ content = Doc(<<>>)
    /\ counts = <<0, 0, 0>>
    /\ pendingWork = FALSE
    /\ session_num = 1
    /\ children = 0
    /\ lastSession = NoSession
    /\ err = "None"
    /\ exitCode = -1
    /\ reads = 0
    /\ launches = 0
    /\ exited = 0

\* goals.count_by_status() and goals.has_pending_work() on the same value
CallQueries ==
    /\ pc = "Fn"
    /\ counts' = count_by_status(goals)
    /\ pendingWork' = has_pending_work(goals)
    /\ pc' = "FnDone"
    /\ UNCHANGED <<pathExists, fileExists, stdoutOk, content, goals, session_num,
                   children, lastSession, err, exitCode, reads, launches, exited>>

NextFn == CallQueries

SpecFn == InitFn /\ [][NextFn]_vars

\* ------------------------------------------- the loop under fair scheduling
\* file contents of the fair specification
LiveContents ==
    {Malformed}
      \cup {Doc(rs) : rs \in SeqsUpTo({"completed", "pending", "not_started"},
                                     MaxLiveGoals)}

InitLive ==
    /\ Init
    /\ fileExists => content \in LiveContents

\* the agent, or anyone else, rewrites goals.yaml
ExternalWriteLive ==
    /\ fileExists
    /\ pc \notin {"Done", "Failed", "Panicked"}
    /\ \E c \in LiveContents : c # content /\ content' = c
    /\ UNCHANGED <<pc, pathExists, fileExists, stdoutOk, goals, counts,
                   pendingWork, session_num, children, lastSession, err,
                   exitCode, reads, launches, exited>>

NextLive ==
    \/ Validate
    \/ CheckStatus
    \/ Decide
    \/ RunSession
    \/ WaitChild
    \/ ExternalWriteLive
    \/ StdoutBreaks

\* `start` is sequential code: whichever of its own steps is next is taken.
\* The return of child.wait() depends on the child and gets no fairness.
SpecLive ==
    /\ InitLive
    /\ [][NextLive]_vars
    /\ WF_vars(Validate)
    /\ WF_vars(CheckStatus)
    /\ WF_vars(Decide)
    /\ WF_vars(RunSession)

\* --------------------------------------- the loop with nobody writing the file
NextFrozen ==
    \/ Validate
    \/ CheckStatus
    \/ Decide
    \/ RunSession
    \/ WaitChild
    \/ StdoutBreaks

SpecFrozen == Init /\ [][NextFrozen]_vars

\* ----------------------------------------------------------------- claims
\* the statuses has_pending_work is specified to match
SpecPendingSet ==
    {"pending", "ready_for_execution", "in_progress", "ready_for_verification"}

Indices(gs, S) == {i \in 1..Len(gs) : gs[i] \in S}

\* C1: the run reaches Done (exit code 0, "all goals completed") only when
\* every goal of the most recently read status file has status `completed`.
C1_DoneOnlyWhenAllCompleted ==
    pc = "Done" => \A i \in 1..Len(goals) : goals[i] = "completed"

\* C2: has_pending_work() is true iff at least one status is exactly one of
\* pending, ready_for_execution, in_progress, ready_for_verification; it is
\* false for the empty GoalSet and for one where every record is completed.
C2_HasPendingWorkIff ==
    pc = "FnDone" =>
      /\ pendingWork <=> (\E i \in 1..Len(goals) : goals[i] \in SpecPendingSet)
      /\ goals = <<>> => ~pendingWork
      /\ (\A i \in 1..Len(goals) : goals[i] = "completed") => ~pendingWork

\* C2 witness: a match behind two records that do not match
C2_Witness ==
    /\ pc = "FnDone"
    /\ pendingWork
    /\ goals = <<"completed", "not_started", "ready_for_verification">>

\* C3: has_pending_work() is true iff count_by_status() gives
\* active + pending > 0, equivalently completed < len(goals).
C3_PendingWorkAgreesWithCounts ==
    pc = "FnDone" =>
      /\ pendingWork <=> (counts[2] + counts[3] > 0)
      /\ pendingWork <=> (counts[1] < Len(goals))

\* C4: count_by_status() puts each record in exactly one bucket, so
\* completed + active + pending = len(goals).
C4_CountsSumToLen ==
    pc = "FnDone" => counts[1] + counts[2] + counts[3] = Len(goals)

\* C4 witness: every bucket is used
C4_Witness ==
    /\ pc = "FnDone"
    /\ Len(goals) = MaxLen
    /\ counts[1] > 0 /\ counts[2] > 0 /\ counts[3] > 0
    /\ \E i \in 1..Len(goals) : goals[i] = "bogus"

\* C5: count_by_status() returns, in the order (completed, active, pending),
\* the number of records that are exactly `completed`, the number that are
\* in_progress / ready_for_execution / ready_for_verification, and the
\* number of all others (not_started, pending, unrecognized strings).
C5_CountsMatchClassification ==
    pc = "FnDone" =>
      LET done == Indices(goals, {"completed"})
          active == Indices(goals, {"in_progress", "ready_for_execution",
                                    "ready_for_verification"})
          rest == (1..Len(goals)) \ (done \cup active)
      IN  counts = <<Cardinality(done), Cardinality(active), Cardinality(rest)>>

\* C5 witness: pending, not_started and two unrecognized strings are counted
\* as pending
C5_Witness ==
    /\ pc = "FnDone"
    /\ counts[3] = Len(goals)
    /\ \E i, j, k \in 1..Len(goals) :
         goals[i] = "pending" /\ goals[j] \in {"bogus", "not_started"}
           /\ goals[k] = "Completed"

\* a session has been reported as failed and is the most recent one
LastSessionFailed == lastSession.num > 0 /\ ~lastSession.success

\* the step ends in the panic of a println! that could not write to stdout
PanicStep == pc' = "Panicked" /\ exitCode' = 101 /\ err' = err /\ ~stdoutOk'

\* C6: a session whose child exits with a non-zero status does not abort the
\* run or set the exit code; the driver goes back to CheckStatus, its next
\* step re-reads the status file, and if that read shows no pending work the
\* run finishes with exit code 0.
C6_FailedSessionContinues ==
    [][ /\ (exited' = exited + 1 /\ ~lastSession'.success)
             => (pc' = "CheckStatus" /\ exitCode' = -1 /\ err' = "None")
        /\ (LastSessionFailed /\ pc = "CheckStatus" /\ pc' # pc)
             => (reads' = reads + 1 /\ pc' \in {"Decide", "Failed"})
        /\ (LastSessionFailed /\ pc = "Decide" /\ pc' # pc
              /\ ~(\E i \in 1..Len(goals) : goals[i] \in SpecPendingSet))
             => (pc' = "Done" /\ exitCode' = 0) ]_vars

\* C6 (amended): a session whose child exits with a non-zero status does not
\* by itself abort the run or set the exit code: unless a write to stdout
\* fails (the process then panics with exit code 101, as it does after a
\* successful session), the driver goes back to CheckStatus, its next step
\* re-reads the status file, and if that read shows no pending work the run
\* finishes with exit code 0.
C6_FailedSessionContinuesOrPanics ==
    [][ /\ exited' = exited + 1
             => \/ pc' = "CheckStatus" /\ exitCode' = -1 /\ err' = "None"
                \/ PanicStep
        /\ (exited' = exited + 1 /\ lastSession' # lastSession
              /\ ~lastSession'.success /\ stdoutOk')
             => (pc' = "CheckStatus" /\ exitCode' = -1 /\ err' = "None")
        /\ (LastSessionFailed /\ pc = "CheckStatus" /\ pc' # pc)
             => (reads' = reads + 1 /\ pc' \in {"Decide", "Failed", "Panicked"}
                   /\ (pc' = "Panicked" => PanicStep))
        /\ (LastSessionFailed /\ pc = "Decide" /\ pc' # pc
              /\ ~(\E i \in 1..Len(goals) : goals[i] \in SpecPendingSet))
             => \/ pc' = "Done" /\ exitCode' = 0
                \/ PanicStep ]_vars

\* C6 witness: one failed session, then overall success (Scenario D)
C6_Witness ==
    /\ pc = "Done"
    /\ exitCode = 0
    /\ exited = 1
    /\ LastSessionFailed
    /\ reads = 2

\* C7: a failure to read or parse the status file is fatal on whichever
\* iteration it occurs: the run aborts with a non-zero exit, and no session
\* is launched and no further read is made afterwards.
C7_ReadFailureFatal ==
    [][ /\ (pc = "CheckStatus" /\ reads' = reads + 1 /\ ~parse_goals(content).ok)
             => (pc' = "Failed" /\ exitCode' = 1
                   /\ err' \in {"IoError", "FormatError"}
                   /\ launches' = launches)
        /\ (err \in {"IoError", "FormatError"})
             => (pc' = "Failed" /\ exitCode' = 1 /\ reads' = reads
                   /\ launches' = launches /\ err' = err) ]_vars

\* C7 witness: the read after the first session fails
C7_Witness ==
    /\ pc = "Failed"
    /\ err = "FormatError"
    /\ reads = 2
    /\ exited = 1
    /\ launches = 1

\* C8: a failure to launch the agent is fatal and not retried: the run aborts
\* with a non-zero exit, the session counter is not incremented for that
\* attempt, and no status read or launch attempt happens afterwards. (A
\* launch attempt that does not lead to the wait is a launch failure, whether
\* or not the agent process was started.)
C8_LaunchFailureFatal ==
    [][ /\ (launches' = launches + 1 /\ pc' # "WaitChild")
             => (pc' = "Failed" /\ exitCode' = 1 /\ err' = "ProcessLaunchError"
                   /\ session_num' = session_num /\ exited' = exited)
        /\ (err = "ProcessLaunchError")
             => (pc' = "Failed" /\ exitCode' = 1 /\ reads' = reads
                   /\ launches' = launches /\ session_num' = session_num) ]_vars

\* C8 witness: the second launch fails, the counter still says 2
C8_Witness ==
    /\ pc = "Failed"
    /\ err = "ProcessLaunchError"
    /\ launches = 2
    /\ session_num = 2
    /\ exitCode = 1

\* the process has terminated
Terminated == exitCode # -1

\* C9 (as stated): the run exits non-zero only for a missing project path, a
\* missing status file, a status file read/parse error or a launch failure;
\* every other terminating execution ends through Done with exit code 0.
C9_FourFatalConditions ==
    /\ Terminated <=> pc \in {"Done", "Failed"}
    /\ (Terminated /\ exitCode # 0)
         => err \in {"PathNotFound", "StatusFileMissing", "IoError",
                     "FormatError", "ProcessLaunchError"}
    /\ (Terminated /\ err \notin {"PathNotFound", "StatusFileMissing", "IoError",
                                  "FormatError", "ProcessLaunchError"})
         => (pc = "Done" /\ exitCode = 0)

\* C9 (amended): the run exits non-zero only for a missing project path, a
\* missing status file, a status file read/parse error, a launch failure, a
\* failure of the wait on the child (all exit code 1), or a panic because a
\* write to stdout failed (exit code 101); every other terminating execution
\* ends through Done with exit code 0.
C9_FatalConditions ==
    /\ Terminated <=> pc \in {"Done", "Failed", "Panicked"}
    /\ (Terminated /\ exitCode # 0)
         => \/ /\ pc = "Failed"
               /\ exitCode = 1
               /\ err \in {"PathNotFound", "StatusFileMissing", "IoError",
                           "FormatError", "ProcessLaunchError",
                           "ProcessWaitError"}
            \/ /\ pc = "Panicked"
               /\ exitCode = 101
               /\ ~stdoutOk
               /\ err = "None"
    /\ (Terminated /\ pc \notin {"Failed", "Panicked"})
         => (pc = "Done" /\ exitCode = 0 /\ err = "None")

\* C9 witness: the wait on a launched child failed
C9_Witness ==
    /\ pc = "Failed"
    /\ err = "ProcessWaitError"
    /\ exitCode = 1
    /\ launches = 1

\* C10: if the project path does not exist the run fails with PathNotFound,
\* otherwise if the status file does not exist it fails with
\* StatusFileMissing; both happen before any read of the status file and
\* before any launch attempt, and the run exits non-zero.
C10_InitValidationFirst ==
    /\ (pc # "Init" /\ ~pathExists) => err = "PathNotFound"
    /\ (pc # "Init" /\ pathExists /\ ~fileExists) => err = "StatusFileMissing"
    /\ err \in {"PathNotFound", "StatusFileMissing"}
         => (pc = "Failed" /\ exitCode = 1 /\ reads = 0 /\ launches = 0
               /\ children = 0)
    /\ (reads > 0 \/ launches > 0) => (pathExists /\ fileExists)
    /\ pc = "Init" => (reads = 0 /\ launches = 0)

\* C10 (amended): after the banner is written, a missing project path makes
\* the run fail with PathNotFound, and otherwise a missing status file makes
\* it fail with StatusFileMissing; if the banner cannot be written to stdout
\* the process panics (exit code 101) before either check. In all three cases
\* the run ends before any read of the status file and before any launch
\* attempt, with a non-zero exit code.
C10_InitValidationFirstOrPanic ==
    /\ (pc # "Init" /\ ~pathExists)
         => \/ err = "PathNotFound"
            \/ pc = "Panicked" /\ ~stdoutOk
    /\ (pc # "Init" /\ pathExists /\ ~fileExists)
         => \/ err = "StatusFileMissing"
            \/ pc = "Panicked" /\ ~stdoutOk
    /\ (pc # "Init" /\ ~(pathExists /\ fileExists))
         => (pc \in {"Failed", "Panicked"} /\ exitCode \in {1, 101}
               /\ reads = 0 /\ launches = 0 /\ children = 0)
    /\ err \in {"PathNotFound", "StatusFileMissing"}
         => (pc = "Failed" /\ exitCode = 1 /\ reads = 0 /\ launches = 0)
    /\ (reads > 0 \/ launches > 0) => (pathExists /\ fileExists)
    /\ pc = "Init" => (reads = 0 /\ launches = 0)

\* C10 witness: the project exists, goals.yaml does not (Scenario C)
C10_Witness ==
    /\ pathExists
    /\ ~fileExists
    /\ err = "StatusFileMissing"
    /\ exitCode = 1

\* C11: at most one child process is active at any time, and while a child
\* is active the driver does not read the status file, does not launch
\* another child and does not report, until that child has exited.
C11_OneChildDriverBlocked ==
    [][ /\ children \in {0, 1} /\ children' \in {0, 1}
        /\ children = 1
             => /\ pc \in {"WaitChild", "Failed"}
                /\ reads' = reads
                /\ launches' = launches
                /\ (lastSession' # lastSession => children' = 0) ]_vars

\* C11 witness: the second child is running
C11_Witness ==
    /\ children = 1
    /\ pc = "WaitChild"
    /\ launches = 2
    /\ exited = 1

\* C12: no step of the driver changes the contents of the status file; the
\* file changes only through the external agent or other outside writers.
C12_DriverNeverWritesFile ==
    [][ content' # content
          => /\ pc' = pc /\ goals' = goals /\ counts' = counts
             /\ pendingWork' = pendingWork /\ session_num' = session_num
             /\ children' = children /\ lastSession' = lastSession
             /\ err' = err /\ exitCode' = exitCode /\ reads' = reads
             /\ launches' = launches /\ exited' = exited ]_vars

\* C12 witness: a full run (read, launch, wait, read, Done) after which the
\* file is still what the last read returned
C12_Witness ==
    /\ pc = "Done"
    /\ exited = 1
    /\ reads = 2
    /\ goals # <<>>
    /\ content = Doc(goals)

\* C13: every Decide step uses a GoalSet read from the status file after the
\* most recent session exited, never one kept from an earlier iteration; so
\* when the read after the first session shows the goal completed, the loop
\* ends with exit code 0 without a second session (Scenario B).
C13_FreshReadEveryIteration ==
    [][ /\ pc = "Decide" => reads = exited + 1
        /\ (pc = "CheckStatus" /\ pc' = "Decide")
             => (goals' = content.records /\ reads' = exited + 1)
        /\ (pc = "Decide" /\ pc' # pc /\ exited = 1 /\ goals = <<"completed">>)
             => (pc' = "Done" /\ exitCode' = 0 /\ launches' = 1) ]_vars

\* C13 (amended): every Decide step uses a GoalSet read from the status file
\* after the most recent session exited, never one kept from an earlier
\* iteration; so when the read after the first session shows the goal
\* completed, no second session is launched and the run exits 0, or panics
\* with exit code 101 if the closing messages cannot be written to stdout.
C13_FreshReadEveryIterationOrPanic ==
    /\ [](pc = "Decide" => reads = exited + 1)
    /\ [][ /\ (pc = "CheckStatus" /\ pc' = "Decide")
                => (goals' = content.records /\ reads' = exited + 1)
           /\ (pc = "Decide" /\ pc' # pc /\ exited = 1
                 /\ goals = <<"completed">>)
                => /\ launches' = 1
                   /\ \/ pc' = "Done" /\ exitCode' = 0
                      \/ PanicStep ]_vars

\* C13 witness: one successful session, then the goal is read as completed
C13_Witness ==
    /\ pc = "Done"
    /\ exitCode = 0
    /\ launches = 1
    /\ exited = 1
    /\ lastSession.success
    /\ goals = <<"completed">>

\* C14: if the first read shows no pending work (the GoalSet is empty or
\* every goal is completed), no session is launched and the run ends through
\* Done with exit code 0.
C14_NothingToDoAtStart ==
    [][ (pc = "Decide" /\ reads = 1 /\ pc' # pc
           /\ \A i \in 1..Len(goals) : goals[i] = "completed")
          => (pc' = "Done" /\ exitCode' = 0 /\ launches' = 0 /\ exited' = 0
                /\ children' = 0) ]_vars

\* C14 (amended): if the first read shows no pending work (the GoalSet is
\* empty or every goal is completed), no session is launched and the run
\* ends through Done with exit code 0, or with a panic (exit code 101) if a
\* message cannot be written to stdout.
C14_NothingToDoAtStartOrPanic ==
    [][ (pc = "Decide" /\ reads = 1 /\ pc' # pc
           /\ \A i \in 1..Len(goals) : goals[i] = "completed")
          => /\ launches' = 0 /\ exited' = 0 /\ children' = 0
             /\ \/ pc' = "Done" /\ exitCode' = 0
                \/ PanicStep ]_vars

\* C14 witness: one completed goal, zero sessions (Scenario A)
C14_Witness ==
    /\ pc = "Done"
    /\ reads = 1
    /\ launches = 0
    /\ exitCode = 0
    /\ goals = <<"completed">>

\* C15: a goal record without a `status` field does not make the status
\* reader fail: the read succeeds, the record is classified as pending, and
\* the run is not aborted with a FormatError because of it.
C15_MissingStatusIsPending ==
    [][ (pc = "CheckStatus" /\ reads' = reads + 1 /\ content.kind = "yaml")
          => /\ pc' # "Failed"
             /\ err' = "None"
             /\ Len(goals') = Len(content.records)
             /\ counts'[3] >= Cardinality({i \in 1..Len(content.records) :
                                             content.records[i] = NoStatus}) ]_vars

\* C16: the session counter starts at 1 and grows by exactly one after every
\* session that was launched and has exited, with success or failure; the
\* number reported for a session is one plus the number of sessions that had
\* exited before it, so the reported numbers are 1, 2, 3, ...
C16_SessionCounter ==
    [][ /\ session_num = exited + 1
        /\ lastSession.num = exited
        /\ exited' = exited + 1
             => (session_num' = session_num + 1 /\ lastSession'.num = exited + 1)
        /\ session_num' # session_num => exited' = exited + 1 ]_vars

\* C16 (amended): the session counter starts at 1 and grows by exactly one
\* with every session report, whether the child exited with success or
\* failure; the number reported for a session is one plus the number of
\* sessions that had exited before it, so the reported numbers are 1, 2,
\* 3, ... The counter is one more than the number of exited sessions except
\* when the report of the last one could not be written to stdout: the
\* process then panics before the increment.
C16_SessionCounterOrPanic ==
    /\ [](session_num = lastSession.num + 1)
    /\ [](session_num \in {exited, exited + 1})
    /\ [](session_num = exited => (pc = "Panicked" /\ ~stdoutOk))
    /\ [][ /\ lastSession' # lastSession
                => (lastSession'.num = exited + 1 /\ exited' = exited + 1
                      /\ session_num' = session_num + 1)
           /\ session_num' # session_num => lastSession' # lastSession
           /\ (exited' = exited + 1 /\ pc' # "Panicked")
                => session_num' = session_num + 1 ]_vars

\* C16 witness: two sessions reported, the second one failed
C16_Witness ==
    /\ session_num = 3
    /\ exited = 2
    /\ lastSession.num = 2
    /\ ~lastSession.success

\* the file on disk parses and shows no pending work
QuietFile ==
    /\ content.kind = "yaml"
    /\ \A i \in 1..Len(content.records) : content.records[i] \notin SpecPendingSet
                                            /\ content.records[i] # NoStatus

\* the model's session budget is used up (not a state of the program)
Capped == pc = "RunSession" /\ session_num > MaxSessions

\* C17: Decide goes to Done exactly when has_pending_work() is false on the
\* current read and to RunSession otherwise; and if Init, every read, every
\* launch and every wait succeed, every launched child eventually exits and
\* the file eventually shows no pending work for good, the run eventually
\* reaches Done.
C17_EventuallyDone ==
    /\ [][ (pc = "Decide" /\ pc' # pc)
             => IF \E i \in 1..Len(goals) : goals[i] \in SpecPendingSet
                THEN pc' = "RunSession" /\ exitCode' = -1
                ELSE pc' = "Done" /\ exitCode' = 0 ]_vars
    /\ ( /\ [](err = "None")
         /\ []<>(pc # "WaitChild")
         /\ <>[]QuietFile
         /\ []~Capped )
         => <>(pc = "Done")

\* C17 (amended): Decide goes to Done exactly when has_pending_work() is
\* false on the current read and to RunSession otherwise, unless its message
\* cannot be written to stdout (panic); and if Init, every read, every
\* launch, every wait and every write to stdout succeed, every launched
\* child eventually exits and the file eventually shows no pending work for
\* good, the run eventually reaches Done.
C17_EventuallyDoneIfStdout ==
    /\ [][ (pc = "Decide" /\ pc' # pc)
             => \/ PanicStep
                \/ IF \E i \in 1..Len(goals) : goals[i] \in SpecPendingSet
                   THEN pc' = "RunSession" /\ exitCode' = -1
                   ELSE pc' = "Done" /\ exitCode' = 0 ]_vars
    /\ [][ (pc = "Decide" /\ pc' # pc /\ stdoutOk) => pc' # "Panicked" ]_vars
    /\ ( /\ [](err = "None")
         /\ []stdoutOk
         /\ []<>(pc # "WaitChild")
         /\ <>[]QuietFile
         /\ []~Capped )
         => <>(pc = "Done")

\* C17 witness: Done after two sessions
C17_Witness ==
    /\ pc = "Done"
    /\ exitCode = 0
    /\ exited = 2
    /\ reads = 3
    /\ ~pendingWork
    /\ QuietFile

\* C18: there is no iteration cap: whatever the session number, a read that
\* shows pending work is followed by another launch; and when nobody changes
\* the file, a run that has launched a session never reaches Done.
C18_NoIterationCap ==
    [][ /\ (pc = "Decide" /\ pc' # pc
              /\ \E i \in 1..Len(goals) : goals[i] \in SpecPendingSet)
             => pc' = "RunSession"
        /\ (pc = "RunSession" /\ pc' = "WaitChild") => launches' = session_num
        /\ launches >= 1 => (pc # "Done" /\ pc' # "Done") ]_vars

\* C18 (amended): there is no iteration cap: whatever the session number, a
\* read that shows pending work is followed by another launch, unless the
\* session banner cannot be written to stdout (panic, exit code 101); and
\* when nobody changes the file, a run that has launched a session never
\* reaches Done.
C18_NoIterationCapOrPanic ==
    [][ /\ (pc = "Decide" /\ pc' # pc
              /\ \E i \in 1..Len(goals) : goals[i] \in SpecPendingSet)
             => (pc' = "RunSession" \/ PanicStep)
        /\ (pc = "Decide" /\ pc' # pc /\ stdoutOk
              /\ \E i \in 1..Len(goals) : goals[i] \in SpecPendingSet)
             => pc' = "RunSession"
        /\ (pc = "RunSession" /\ pc' = "WaitChild") => launches' = session_num
        /\ launches >= 1 => (pc # "Done" /\ pc' # "Done") ]_vars

\* C18 witness: MaxSessions sessions have run and the loop is about to
\* launch the next one
C18_Witness ==
    /\ pc = "RunSession"
    /\ session_num = MaxSessions + 1
    /\ exited = MaxSessions
    /\ pendingWork

\* sessions launched so far: those whose wait returned a status, and the one
\* being waited for (or whose wait failed)
Launched ==
    exited + (IF pc = "WaitChild" \/ err = "ProcessWaitError" THEN 1 ELSE 0)

\* C19: reads and sessions alternate: a launch is preceded by exactly one
\* successful read, which showed pending work, and after a session exit
\* exactly one read is attempted; the number of reads attempted is equal to
\* or one more than the number of sessions launched, and at Done it is the
\* number of exited sessions plus one.
C19_ReadsAndSessionsAlternate ==
    [][ /\ reads \in {Launched, Launched + 1}
        /\ reads' \in {Launched', Launched' + 1}
        /\ pc = "Done" => reads = exited + 1
        /\ launches' = launches + 1
             => (reads = launches + 1 /\ reads' = reads /\ err = "None"
                   /\ \E i \in 1..Len(goals) : goals[i] \in SpecPendingSet)
        /\ exited' = exited + 1 => (reads = exited + 1 /\ pc' = "CheckStatus")
        /\ reads' # reads => (reads' = reads + 1 /\ reads = Launched
                                /\ children = 0) ]_vars

\* C19 (amended): reads and sessions alternate: a launch is preceded by
\* exactly one successful read, which showed pending work, and after a
\* session exit exactly one read is attempted, unless the process panics on
\* a failed write to stdout first; the number of reads attempted is equal to
\* or one more than the number of sessions launched, and at Done it is the
\* number of exited sessions plus one.
C19_ReadsAndSessionsAlternateOrPanic ==
    /\ [](reads \in {Launched, Launched + 1})
    /\ [](pc = "Done" => reads = exited + 1)
    /\ [][ /\ launches' = launches + 1
                => (reads = launches + 1 /\ reads' = reads /\ err = "None"
                      /\ \E i \in 1..Len(goals) : goals[i] \in SpecPendingSet)
           /\ exited' = exited + 1
                => (reads = exited + 1
                      /\ (pc' = "CheckStatus" \/ PanicStep))
           /\ reads' # reads
                => (reads' = reads + 1 /\ reads = Launched /\ children = 0
                      /\ reads = exited) ]_vars

\* C19 witness: three reads around two sessions
C19_Witness ==
    /\ pc = "Done"
    /\ reads = 3
    /\ launches = 2
    /\ exited = 2
    /\ children = 0

====
